---- MODULE Spec2Model ----
(***************************************************************************)
(* A model of the elfo actor runtime core: the AddressBook and its remote  *)
(* map (elfo-core/src/address_book.rs), the Supervisor                     *)
(* (elfo-core/src/supervisor.rs), the Dumper (elfo-core/src/dumping.rs)    *)
(* and the Source combinator (elfo-core/src/context/source.rs).            *)
(* Each subsystem has its own specification over a shared set of           *)
(* variables; a specification leaves the other subsystems' variables       *)
(* unchanged.                                                              *)
(***************************************************************************)
EXTENDS Integers, Sequences, FiniteSets, TLC

VARIABLES
    \* ---- AddressBook ----
    launch_id,      \* AddressBook.launch_id
    slab,           \* AddressBook.local: slot index -> [gen, st, obj]
    entries,        \* VacantEntry values reserved and not yet inserted/dropped
    removeCalls,    \* history: every Addr remove() was called with
    freed,          \* history: every Addr whose object left the slab
    \* ---- Dumper ----
    NEXT_SHARD_NO,  \* static NEXT_SHARD_NO
    SHARD_NO,       \* thread_local SHARD_NO of each writer thread (lazy)
    sequence_no_gen,\* PerGroup.sequence_no_gen: the next number, per group
    shards,         \* PerSystem.shards
    writer,         \* each writer thread's position inside dump()
    drain,          \* each Drain: shard_no, queue, position inside next()
    offered,        \* history: items offered to a shard since it was last swapped
    shed,           \* history: items dropped by dump()
    pushed,         \* history: items each writer thread pushed, in order
    yielded,        \* history: the items each Drain's next() returned, in order
    \* ---- Supervisor ----
    objects,        \* Supervisor.objects: key -> Addr of the stored object
    control,        \* ControlBlock.config
    router,         \* the config Router::update was last called with
    actors,         \* Addr -> the actor spawned under it and its task
    thread,         \* each thread that calls handle(): its envelope and position
    \* ---- Source ----
    children,       \* Combined.left and Combined.right: the two child sources
    polled,         \* history: the polls of Combined, with the children's answers
    \* ---- RemoteToHandleMap ----
    remote,         \* the snapshot the ArcSwap holds: map and fallback
    remoteCall,     \* history: the last insert / remove and the snapshot before it
    registered,     \* history: the registrations in place
    committed,      \* history: the calls whose swap succeeded, in swap order
    updater,        \* each thread inside rcu(): its call and the snapshot it holds
    reader          \* each thread inside RemoteToHandleMap::get

bookVars == <<launch_id, slab, entries, removeCalls, freed>>
dumpVars == <<NEXT_SHARD_NO, SHARD_NO, sequence_no_gen, shards, writer, drain,
              offered, shed, pushed, yielded>>
supVars == <<objects, control, router, actors, thread>>
srcVars == <<children, polled>>
rcuVars == <<committed, updater, reader>>
remoteVars == <<remote, remoteCall, registered, rcuVars>>
vars == <<bookVars, dumpVars, supVars, srcVars, remoteVars>>

(***************************************************************************)
(* Addr: a bit pattern  group | salted slot key.                           *)
(* The slot key is (generation, index) as the slab hands it out; the       *)
(* launch id is xor-ed into it.  Widths are scaled down.                   *)
(***************************************************************************)
IdxBits == 2
GenBits == 2
GroupBits == 2
NIdx == 2 ^ IdxBits
NGen == 2 ^ GenBits
KeyBits == IdxBits + GenBits
KeySpace == 2 ^ KeyBits
AddrBits == KeyBits + GroupBits
AddrSpace == 2 ^ AddrBits

\* bounds of the model
MaxGen == 1          \* a slot is freed at most MaxGen times
MaxLive == 2         \* slots reserved or filled at the same time (BookSpec)

NULL == 0
None == [none |-> TRUE]      \* Option::None of an object
NoAddr == 0 - 1               \* Option::None of an Addr
Groups == 1 .. 2
Slots == 0 .. (NIdx - 1)
Addrs == 0 .. (AddrSpace - 1)
LaunchIds == {0, 1, 7}

RECURSIVE BitXor(_, _, _)
BitXor(a, b, w) ==
    IF w = 0 THEN 0
    ELSE (((a % 2) + (b % 2)) % 2) + 2 * BitXor(a \div 2, b \div 2, w - 1)

\* Addr::new_local(slot_key, group_no, launch_id)
new_local(slot_key, group_no, launch) ==
    group_no * KeySpace + BitXor(slot_key, launch % KeySpace, KeyBits)

\* Addr::slot_key(launch_id): the whole address xor the launch id, as usize
SlotKeys ==
    [addr \in Addrs |-> [launch \in LaunchIds |->
        BitXor(addr, launch % AddrSpace, AddrBits)]]
slot_key(addr, launch) == SlotKeys[addr][launch]

\* Addr::into_bits() as usize
into_bits(addr) == addr

is_null(addr) == addr = NULL

(***************************************************************************)
(* sharded_slab::Slab: a key is generation * NIdx + index; the bits above  *)
(* the key are not looked at.                                              *)
(***************************************************************************)
KeyIdx(key) == key % NIdx
KeyGen(key) == (key \div NIdx) % NGen
SlabKey(idx) == slab[idx].gen * NIdx + idx

EmptySlot == [gen |-> 0, st |-> "free", obj |-> None]

SlabHolds(s, key) ==
    /\ s[KeyIdx(key)].st = "full"
    /\ s[KeyIdx(key)].gen = KeyGen(key)

SlabGet(s, key) == IF SlabHolds(s, key) THEN s[KeyIdx(key)].obj ELSE None

SlabRemove(s, key) ==
    IF SlabHolds(s, key)
    THEN [s EXCEPT ![KeyIdx(key)] = [gen |-> @.gen + 1, st |-> "free", obj |-> None]]
    ELSE s

FreeSlots(s) == {i \in Slots : s[i].st = "free"}

\* Slab::vacant_entry: slots are handed out in index order, a freed slot again
NextFree(s) == IF FreeSlots(s) = {} THEN -1
               ELSE CHOOSE i \in FreeSlots(s) : \A j \in FreeSlots(s) : i <= j

(***************************************************************************)
(* AddressBook                                                             *)
(***************************************************************************)
\* AddressBook::prepare_addr (local addresses)
prepare_addr(addr) == IF is_null(addr) THEN NoAddr ELSE addr

BookGetUnfiltered(s, launch, addr) ==
    IF prepare_addr(addr) = NoAddr THEN None
    ELSE SlabGet(s, slot_key(prepare_addr(addr), launch))

\* AddressBook::get / get_owned
BookGet(s, launch, addr) ==
    IF prepare_addr(addr) = NoAddr THEN None
    ELSE LET a == prepare_addr(addr)
             object == SlabGet(s, slot_key(a, launch))
         IN  IF object # None /\ object.addr = a THEN object ELSE None

get(addr) == BookGet(slab, launch_id, addr)
get_owned(addr) == BookGet(slab, launch_id, addr)

\* VacantEntry::addr
EntryAddr(e) == new_local(e.key, e.group_no, e.launch_id)

\* AddressBook::remove: the raw bits of the address go to the slab
BookRemoved(s, launch, addr) == SlabRemove(s, into_bits(addr))

\* what leaves the slab when remove(addr) runs
RemovedObjects(s, addr) ==
    LET key == into_bits(addr)
    IN  IF SlabHolds(s, key) THEN {s[KeyIdx(key)].obj.addr} ELSE {}

LiveAddrs == {slab[i].obj.addr : i \in {j \in Slots : slab[j].st = "full"}}

\* every Addr an object was ever inserted under: still stored, or freed since
Minted == LiveAddrs \cup freed

BookInit ==
    /\ launch_id \in LaunchIds
    /\ slab = [i \in Slots |-> EmptySlot]
    /\ entries = {}
    /\ removeCalls = {}
    /\ freed = {}

\* AddressBook::vacant_entry(group_no)
VacantEntry(group_no) ==
    /\ Cardinality(LiveAddrs) + Cardinality(entries) < MaxLive
    /\ \E idx \in Slots :
        /\ idx = NextFree(slab)
        /\ slab' = [slab EXCEPT ![idx].st = "reserved"]
        /\ entries' = entries \cup
              {[idx |-> idx, key |-> SlabKey(idx), group_no |-> group_no,
                launch_id |-> launch_id]}
    /\ UNCHANGED <<launch_id, removeCalls, freed>>
    /\ UNCHANGED <<dumpVars, supVars, srcVars, remoteVars>>

\* VacantEntry::insert(Object::new(entry.addr(), ..))
EntryInsert(e) ==
    /\ e \in entries
    /\ slab' = [slab EXCEPT ![e.idx] =
                  [gen |-> @.gen, st |-> "full", obj |-> [addr |-> EntryAddr(e)]]]
    /\ entries' = entries \ {e}
    /\ UNCHANGED <<launch_id, removeCalls, freed>>
    /\ UNCHANGED <<dumpVars, supVars, srcVars, remoteVars>>

\* a VacantEntry dropped without insert: the slab takes the slot back
EntryDrop(e) ==
    /\ e \in entries
    /\ slab' = [slab EXCEPT ![e.idx].st = "free"]
    /\ entries' = entries \ {e}
    /\ UNCHANGED <<launch_id, removeCalls, freed>>
    /\ UNCHANGED <<dumpVars, supVars, srcVars, remoteVars>>

\* AddressBook::remove(addr), called with an Addr an object was inserted under
Remove(addr) ==
    /\ SlabHolds(slab, into_bits(addr)) => slab[KeyIdx(into_bits(addr))].gen < MaxGen
    /\ slab' = BookRemoved(slab, launch_id, addr)
    /\ removeCalls' = removeCalls \cup {addr}
    /\ freed' = freed \cup RemovedObjects(slab, addr)
    /\ UNCHANGED <<launch_id, entries>>
    /\ UNCHANGED <<dumpVars, supVars, srcVars, remoteVars>>

BookNext ==
    \/ \E g \in Groups : VacantEntry(g)
    \/ \E e \in entries : EntryInsert(e)
    \/ \E e \in entries : EntryDrop(e)
    \/ \E a \in Minted : Remove(a)



(***************************************************************************)
(* Dumper                                                                  *)
(***************************************************************************)
\* scaled down: 16 shards and 300_000 items per shard in the source
SHARD_COUNT == 2
SHARD_MAX_LEN == 2
MaxDumps == 4            \* dump() calls in one behaviour

Writers == {"w1", "w2"}
Drains == {"d1"}
DumpGroups == {"g1", "g2"}
ShardIds == 0 .. (SHARD_COUNT - 1)
Unassigned == 0 - 1

IdleWriter == [pc |-> "idle"]
\* Dumper::drain; `last` is what the latest next() returned, `queued` whether
\* an item was in a shard when the latest refill began, `pushed` whether one
\* was pushed while it ran, `locked` the shards the latest next() locked, in
\* order, and whether it found them empty
IdleDrain == [shard_no |-> 0, queue |-> <<>>, pc |-> "idle", next_shard_no |-> 0,
              last |-> "-", queued |-> FALSE, pushed |-> FALSE, locked |-> <<>>]

\* dump() calls so far: every call takes one sequence number
RECURSIVE SumOver(_, _)
SumOver(f, S) == IF S = {} THEN 0
                 ELSE LET x == CHOOSE y \in S : TRUE IN f[x] + SumOver(f, S \ {x})
DumpCalls == SumOver(sequence_no_gen, DumpGroups) - Cardinality(DumpGroups)

DumpInit ==
    /\ NEXT_SHARD_NO = 0
    /\ SHARD_NO = [w \in Writers |-> Unassigned]
    /\ sequence_no_gen = [g \in DumpGroups |-> 1]
    /\ shards = [i \in ShardIds |-> <<>>]
    /\ writer = [w \in Writers |-> IdleWriter]
    /\ drain = [d \in Drains |-> IdleDrain]
    /\ offered = [i \in ShardIds |-> <<>>]
    /\ shed = {}
    /\ pushed = [w \in Writers |-> <<>>]
    /\ yielded = [d \in Drains |-> <<>>]

\* Dumper::dump, first part: build the DumpItem.  The caller names the
\* message of its n-th dump() call n, as tests::it_works does ("1", "2", "3").
DumpGenerateSharedGen(w, g) ==
    /\ writer[w].pc = "idle"
    /\ DumpCalls < MaxDumps
    /\ writer' = [writer EXCEPT ![w] =
          [pc |-> "push",
           item |-> [group |-> g, sequence_no |-> sequence_no_gen["g1"],
                     message_name |-> DumpCalls + 1, thread |-> w]]]
    /\ sequence_no_gen' = [sequence_no_gen EXCEPT !["g1"] = @ + 1]
    /\ UNCHANGED <<NEXT_SHARD_NO, SHARD_NO, shards, drain, offered, shed, pushed,
                   yielded>>
    /\ UNCHANGED <<bookVars, supVars, srcVars, remoteVars>>

DumpGenerate(w, g) ==
    /\ writer[w].pc = "idle"
    /\ DumpCalls < MaxDumps
    /\ writer' = [writer EXCEPT ![w] =
          [pc |-> "push",
           item |-> [group |-> g, sequence_no |-> sequence_no_gen[g],
                     message_name |-> DumpCalls + 1, thread |-> w]]]
    /\ sequence_no_gen' = [sequence_no_gen EXCEPT ![g] = @ + 1]
    /\ UNCHANGED <<NEXT_SHARD_NO, SHARD_NO, shards, drain, offered, shed, pushed,
                   yielded>>
    /\ UNCHANGED <<bookVars, supVars, srcVars, remoteVars>>

\* SHARD_NO.with(|shard_no| *shard_no): the first use takes the next number
ShardNoOf(w) == IF SHARD_NO[w] = Unassigned THEN NEXT_SHARD_NO % SHARD_COUNT
                ELSE SHARD_NO[w]

\* the shard is full: `queue.len() >= SHARD_MAX_LEN`
ShardFullOffByOne(queue) == Len(queue) > SHARD_MAX_LEN
ShardFull(queue) == Len(queue) >= SHARD_MAX_LEN

\* Dumper::dump, second part: read SHARD_NO, lock the shard, drop or push_back
DumpPush(w) ==
    /\ writer[w].pc = "push"
    /\ LET shard_no == ShardNoOf(w)
           item == writer[w].item
       IN  /\ IF ShardFull(shards[shard_no])
              THEN /\ shed' = shed \cup {item}
                   /\ UNCHANGED <<shards, pushed>>
              ELSE /\ shards' = [shards EXCEPT ![shard_no] = Append(@, item)]
                   /\ pushed' = [pushed EXCEPT ![w] = Append(@, item)]
                   /\ UNCHANGED shed
           /\ offered' = [offered EXCEPT ![shard_no] = Append(@, item)]
    /\ writer' = [writer EXCEPT ![w] = IdleWriter]
    /\ drain' = [d \in DOMAIN drain |->
          IF drain[d].pc = "refill" THEN [drain[d] EXCEPT !.pushed = TRUE]
          ELSE drain[d]]
    /\ SHARD_NO' = [SHARD_NO EXCEPT ![w] = ShardNoOf(w)]
    /\ NEXT_SHARD_NO' = IF SHARD_NO[w] = Unassigned THEN NEXT_SHARD_NO + 1
                        ELSE NEXT_SHARD_NO
    /\ UNCHANGED <<sequence_no_gen, yielded>>
    /\ UNCHANGED <<bookVars, supVars, srcVars, remoteVars>>

\* Drain::next, the queue holds an item: pop_front
DrainPop(d) ==
    /\ drain[d].pc = "idle"
    /\ drain[d].queue # <<>>
    /\ drain' = [drain EXCEPT ![d].queue = Tail(@), ![d].last = "some",
                              ![d].queued = TRUE, ![d].pushed = FALSE,
                              ![d].locked = <<>>]
    /\ yielded' = [yielded EXCEPT ![d] = Append(@, Head(drain[d].queue))]
    /\ UNCHANGED <<NEXT_SHARD_NO, SHARD_NO, sequence_no_gen, shards, writer,
                   offered, shed, pushed>>
    /\ UNCHANGED <<bookVars, supVars, srcVars, remoteVars>>

\* Drain::next, the queue is empty: enter refill_queue
DrainRefillStart(d) ==
    /\ drain[d].pc = "idle"
    /\ drain[d].queue = <<>>
    /\ drain' = [drain EXCEPT ![d].pc = "refill",
                              ![d].next_shard_no = drain[d].shard_no,
                              ![d].last = "-",
                              ![d].queued = \E i \in ShardIds : shards[i] # <<>>,
                              ![d].pushed = FALSE,
                              ![d].locked = <<>>]
    /\ UNCHANGED <<NEXT_SHARD_NO, SHARD_NO, sequence_no_gen, shards, writer,
                   offered, shed, pushed, yielded>>
    /\ UNCHANGED <<bookVars, supVars, srcVars, remoteVars>>

\* refill_queue has locked shard i and found `queue` in it
Locked(locked, i, queue) == Append(locked, [shard |-> i, empty |-> queue = <<>>])

\* refill_queue, the condition of the loop:
\* `self.queue.is_empty() && next_shard_no != self.shard_no`
KeepsLookingWhileEmpty(queue, next_shard_no, shard_no) == queue = <<>>
KeepsLooking(queue, next_shard_no, shard_no) ==
    queue = <<>> /\ next_shard_no # shard_no

\* (a refill that gives up after the first shard)
DrainRefillStepNoRevolution(d) ==
    /\ drain[d].pc = "refill"
    /\ LET i == drain[d].next_shard_no
           queue == shards[i]
           next_shard_no == (i + 1) % SHARD_COUNT
       IN  /\ shards' = [shards EXCEPT ![i] = drain[d].queue]
           /\ offered' = [offered EXCEPT ![i] = <<>>]
           /\ IF queue = <<>> /\ next_shard_no # drain[d].shard_no /\ FALSE
              THEN /\ drain' = [drain EXCEPT ![d].queue = queue,
                                              ![d].next_shard_no = next_shard_no,
                                              ![d].locked = Locked(@, i, queue)]
                   /\ UNCHANGED yielded
              ELSE /\ drain' = [drain EXCEPT
                        ![d].shard_no = next_shard_no,
                        ![d].next_shard_no = next_shard_no,
                        ![d].queue = IF queue = <<>> THEN <<>> ELSE Tail(queue),
                        ![d].last = IF queue = <<>> THEN "none" ELSE "some",
                        ![d].locked = Locked(@, i, queue),
                        ![d].pc = "idle"]
                   /\ yielded' = [yielded EXCEPT ![d] =
                        IF queue = <<>> THEN @ ELSE Append(@, Head(queue))]
    /\ UNCHANGED <<NEXT_SHARD_NO, SHARD_NO, sequence_no_gen, writer, shed, pushed>>
    /\ UNCHANGED <<bookVars, supVars, srcVars, remoteVars>>

\* `mem::swap(&mut self.queue, &mut next_queue)` under the lock of the shard
CloneQueue(queue, next_queue) == [queue |-> next_queue, next_queue |-> next_queue]
SwapQueues(queue, next_queue) == [queue |-> next_queue, next_queue |-> queue]

\* Drain::refill_queue, one turn of the loop: lock a shard and swap queues;
\* when the loop ends, set the cursor and let next() pop_front.
DrainRefillStep(d) ==
    /\ drain[d].pc = "refill"
    /\ LET i == drain[d].next_shard_no
           queue == SwapQueues(drain[d].queue, shards[i]).queue
           next_shard_no == (i + 1) % SHARD_COUNT
       IN  /\ shards' = [shards EXCEPT ![i] =
                            SwapQueues(drain[d].queue, shards[i]).next_queue]
           /\ offered' = [offered EXCEPT ![i] = <<>>]
           /\ IF KeepsLooking(queue, next_shard_no, drain[d].shard_no)
              THEN /\ drain' = [drain EXCEPT ![d].queue = queue,
                                              ![d].next_shard_no = next_shard_no,
                                              ![d].locked = Locked(@, i, queue)]
                   /\ UNCHANGED yielded
              ELSE /\ drain' = [drain EXCEPT
                        ![d].shard_no = next_shard_no,
                        ![d].next_shard_no = next_shard_no,
                        ![d].queue = IF queue = <<>> THEN <<>> ELSE Tail(queue),
                        ![d].last = IF queue = <<>> THEN "none" ELSE "some",
                        ![d].locked = Locked(@, i, queue),
                        ![d].pc = "idle"]
                   /\ yielded' = [yielded EXCEPT ![d] =
                        IF queue = <<>> THEN @ ELSE Append(@, Head(queue))]
    /\ UNCHANGED <<NEXT_SHARD_NO, SHARD_NO, sequence_no_gen, writer, shed, pushed>>
    /\ UNCHANGED <<bookVars, supVars, srcVars, remoteVars>>

DumpNext ==
    \/ \E w \in Writers, g \in DumpGroups : DumpGenerate(w, g)
    \/ \E w \in Writers : DumpPush(w)
    \/ \E d \in Drains : DrainPop(d)
    \/ \E d \in Drains : DrainRefillStart(d)
    \/ \E d \in Drains : DrainRefillStep(d)

(***************************************************************************)
(* Supervisor                                                              *)
(***************************************************************************)
MaxEnded == 1        \* actor tasks whose future has ended

Keys == {"k1", "k2"}
KeyOrder == <<"k1", "k2">>          \* the order objects.iter() visits keys in
Lists == {<<>>, <<"k1", "k2">>}
Configs == {"c1", "c2"}
NoConfig == "unset"                 \* ControlBlock { config: None }
Undecodable == "bad"                \* a payload config.decode::<C>() rejects
Threads == {"t1", "t2"}
ConfigThreads == {"t1"}             \* the threads that bring config messages
Payloads == {"c2", Undecodable}     \* the payloads of config messages
SupGroup == 1                       \* the group of the supervisor's context
SendResults == {"Ok", "Full", "Closed"}

Outcome(type, key, list) == [type |-> type, key |-> key, list |-> list]
Broadcast == Outcome("Broadcast", "-", <<>>)
Outcomes ==
    {Outcome("Unicast", k, <<>>) : k \in Keys}
        \cup {Outcome("Multicast", "-", l) : l \in Lists}
        \cup {Broadcast, Outcome("Discard", "-", <<>>), Outcome("Default", "-", <<>>)}

\* Outcome::or
or(outcome, other) == IF outcome.type = "Default" THEN other ELSE outcome

RouteReport(type, addr, someone, waiters) ==
    [type |-> type, addr |-> addr, someone |-> someone, waiters |-> waiters]
Done == RouteReport("Done", NoAddr, FALSE, <<>>)
Closed == RouteReport("Closed", NoAddr, FALSE, <<>>)
Wait(addr) == RouteReport("Wait", addr, FALSE, <<>>)
WaitAll(someone, waiters) == RouteReport("WaitAll", NoAddr, someone, waiters)
NoReport == RouteReport("-", NoAddr, FALSE, <<>>)

IdleThread ==
    [pc |-> "idle", msg |-> "-", config |-> NoConfig, request |-> FALSE,
     alive |-> TRUE, saved |-> FALSE, updated |-> FALSE,
     route |-> Outcome("-", "-", <<>>), out |-> Outcome("-", "-", <<>>), i |-> 0,
     someone |-> FALSE, waiters |-> <<>>, offers |-> <<>>, skipped |-> <<>>,
     present |-> {}, misses |-> 0,
     response |-> "-", report |-> NoReport]

NoActors == [a \in {} |-> a]

\* Actor::new(addr) and the task tokio::spawn starts for it
NewActorFirstConfig(key, via) ==
    [key |-> key, status |-> "Initializing", config |-> "c1", via |-> via,
     pc |-> "running", blocked |-> 0, restarted |-> 0, successor |-> NoAddr]
NewActor(key, via) ==
    [key |-> key, status |-> "Initializing", config |-> control, via |-> via,
     pc |-> "running", blocked |-> 0, restarted |-> 0, successor |-> NoAddr]

Ended == Cardinality({a \in DOMAIN actors : actors[a].pc # "running"})

\* the bound of a behaviour: MaxEnded task endings, and one more for every
\* thread that makes no call
IdleThreads == Cardinality({t \in Threads : thread[t].pc = "idle"})
WithinBudget == Ended < MaxEnded + IdleThreads

\* Supervisor::new
SupInit ==
    /\ objects = [k \in Keys |-> NoAddr]
    /\ control = NoConfig
    /\ router = NoConfig
    /\ actors = NoActors
    /\ thread = [t \in Threads |-> IdleThread]

\* the supervisor after its first UpdateConfig { c1 }, routed Discard
SupConfigured ==
    /\ objects = [k \in Keys |-> NoAddr]
    /\ control = "c1"
    /\ router = "c1"
    /\ actors = NoActors
    /\ thread = [t \in Threads |-> IdleThread]

\* Supervisor::spawn reaches `entry.insert`: a config is stored and the slab
\* has a slot ("config is unset" and "too many actors" panic otherwise)
CanSpawn == control # NoConfig /\ FreeSlots(slab) # {}

\* the Addr of the VacantEntry spawn reserves
SpawnAddr == new_local(SlabKey(NextFree(slab)), SupGroup, launch_id)

\* Supervisor::spawn(key), when it does not panic
Spawn(key, via) ==
    /\ slab' = [slab EXCEPT ![NextFree(slab)] =
                  [gen |-> @.gen, st |-> "full", obj |-> [addr |-> SpawnAddr]]]
    /\ actors' = (SpawnAddr :> NewActor(key, via)) @@ actors
\* a thread enters handle() once
Ready(t) == thread[t].pc = "idle" /\ WithinBudget

\* the envelope a call of handle() is given
Call(msg, config, request) ==
    [IdleThread EXCEPT !.msg = msg, !.config = config, !.request = request]

\* do_handle(envelope, outcome), up to its first look at the map
Routed(rec, route, outcome) ==
    LET r == [rec EXCEPT !.route = route, !.out = outcome,
                         !.present = {k \in Keys : objects[k] # NoAddr}]
    IN  IF outcome.type \in {"Discard", "Default"}
        THEN [r EXCEPT !.pc = "done", !.report = Done]
        ELSE IF outcome.type = "Multicast" /\ outcome.list = <<>>
        THEN [r EXCEPT !.pc = "done", !.report = Closed]
        ELSE [r EXCEPT !.pc = "deliver", !.i = 1]

\* handle: any other message: `self.do_handle(envelope, self.router.route(..))`
HandleMessage(t) ==
    /\ Ready(t)
    /\ \E o \in Outcomes :
          thread' = [thread EXCEPT ![t] = Routed(Call("Msg", NoConfig, FALSE), o, o)]
    /\ UNCHANGED <<objects, control, router, actors, bookVars>>
    /\ UNCHANGED <<dumpVars, srcVars, remoteVars>>

\* handle: the Err(reason) arms: respond(token, Err(ConfigRejected))
RejectedUnanswered(msg, payload) ==
    [Call(msg, payload, TRUE) EXCEPT !.pc = "done", !.report = Done]
Rejected(msg, payload) ==
    [Call(msg, payload, TRUE) EXCEPT !.pc = "done", !.response = "ConfigRejected",
                                     !.report = Done]

\* handle: messages::ValidateConfig
HandleValidateConfig(t, payload) ==
    /\ Ready(t)
    /\ IF payload = Undecodable
       THEN thread' = [thread EXCEPT ![t] = Rejected("ValidateConfig", payload)]
       ELSE \E o \in Outcomes :
               thread' = [thread EXCEPT ![t] =
                   Routed(Call("ValidateConfig", payload, TRUE), o, or(o, Broadcast))]
    /\ UNCHANGED <<objects, control, router, actors, bookVars>>
    /\ UNCHANGED <<dumpVars, srcVars, remoteVars>>

\* `control.config = config.get().cloned()`
StoredConfigKept(old, payload) == old
StoredConfig(old, payload) == payload

\* handle: messages::UpdateConfig, up to `drop(control)`
HandleUpdateConfig(t, payload) ==
    /\ Ready(t)
    /\ IF payload = Undecodable
       THEN /\ thread' = [thread EXCEPT ![t] = Rejected("UpdateConfig", payload)]
            /\ UNCHANGED <<control, router>>
       ELSE /\ control' = StoredConfig(control, payload)
            /\ router' = control'
            /\ thread' = [thread EXCEPT ![t] =
                  [Call("UpdateConfig", payload, TRUE) EXCEPT
                      !.pc = "route",
                      !.saved = (control' = payload),
                      !.updated = (router' = payload)]]
    /\ UNCHANGED <<objects, actors, bookVars>>
    /\ UNCHANGED <<dumpVars, srcVars, remoteVars>>

\* handle: messages::UpdateConfig, from `self.router.route(&envelope)` on
HandleUpdateConfigRoute(t) ==
    /\ thread[t].pc = "route"
    /\ \E o \in Outcomes :
          thread' = [thread EXCEPT ![t] = Routed(thread[t], o, or(o, Broadcast))]
    /\ UNCHANGED <<objects, control, router, actors, bookVars>>
    /\ UNCHANGED <<dumpVars, srcVars, remoteVars>>

\* envelope.duplicate(book) returns None: the requester has died
DuplicateFails(rec) == rec.request /\ ~rec.alive

\* the requester of a request that is being copied to several actors dies
RequesterDies(t) ==
    /\ thread[t].pc \in {"deliver", "entry"}
    /\ thread[t].out.type \in {"Multicast", "Broadcast"}
    /\ thread[t].request
    /\ thread[t].alive
    /\ thread' = [thread EXCEPT ![t].alive = FALSE]
    /\ UNCHANGED <<objects, control, router, actors, bookVars>>
    /\ UNCHANGED <<dumpVars, srcVars, remoteVars>>

\* Unicast: the match on `actor.try_send(envelope)`
UnicastReport(addr, r) ==
    CASE r = "Ok" -> Done
      [] r = "Full" -> Wait(addr)
      [] r = "Closed" -> Closed

UnicastSend(rec, key, addr, r) ==
    [rec EXCEPT !.offers = Append(@, [key |-> key, addr |-> addr, res |-> r]),
                !.pc = "done", !.report = UnicastReport(addr, r)]

\* Outcome::Unicast: `self.objects.get(&key)`, and try_send on a hit
UnicastGet(t) ==
    /\ thread[t].pc = "deliver"
    /\ thread[t].out.type = "Unicast"
    /\ LET key == thread[t].out.key
           addr == objects[key]
       IN  IF addr # NoAddr
           THEN \E r \in SendResults :
                   thread' = [thread EXCEPT ![t] = UnicastSend(@, key, addr, r)]
           ELSE thread' = [thread EXCEPT ![t].pc = "entry", ![t].misses = @ + 1]
    /\ UNCHANGED <<objects, control, router, actors, bookVars>>
    /\ UNCHANGED <<dumpVars, srcVars, remoteVars>>

\* `entry(key).or_insert_with(..)` runs the closure: the entry is vacant
EntryAlwaysVacant(key) == key \in Keys
EntryVacant(key) == objects[key] = NoAddr

\* Outcome::Unicast, after a miss: entry(key).or_insert_with(|| spawn(key)),
\* then try_send
UnicastEntry(t) ==
    /\ thread[t].pc = "entry"
    /\ thread[t].out.type = "Unicast"
    /\ LET key == thread[t].out.key
       IN  IF ~EntryVacant(key)
           THEN /\ \E r \in SendResults :
                     thread' = [thread EXCEPT ![t] = UnicastSend(@, key, objects[key], r)]
                /\ UNCHANGED <<objects, actors, bookVars>>
           ELSE IF ~CanSpawn
           THEN /\ thread' = [thread EXCEPT ![t].pc = "panicked"]
                /\ UNCHANGED <<objects, actors, bookVars>>
           ELSE /\ Spawn(key, "first")
                /\ objects' = [objects EXCEPT ![key] = SpawnAddr]
                /\ \E r \in SendResults :
                     thread' = [thread EXCEPT ![t] = UnicastSend(@, key, SpawnAddr, r)]
                /\ UNCHANGED <<launch_id, entries, removeCalls, freed>>
    /\ UNCHANGED <<control, router>>
    /\ UNCHANGED <<dumpVars, srcVars, remoteVars>>
\* Multicast / Broadcast: the match on `actor.try_send(envelope)`
OfferNothing(rec, key, addr, r) == rec
Offer(rec, key, addr, r) ==
    [rec EXCEPT !.offers = Append(@, [key |-> key, addr |-> addr, res |-> r]),
                !.someone = @ \/ r = "Ok",
                !.waiters = IF r = "Full" THEN Append(@, addr) ELSE @]

\* Multicast / Broadcast: the report after the loop
CollectSomeoneFirst(rec) ==
    IF rec.someone THEN Done
    ELSE IF rec.waiters = <<>> THEN Closed
    ELSE WaitAll(rec.someone, rec.waiters)
Collect(rec) ==
    IF rec.waiters = <<>>
    THEN IF rec.someone THEN Done ELSE Closed
    ELSE WaitAll(rec.someone, rec.waiters)

\* the loop goes on to its next turn, or ends
AdvanceStops(rec, n) == [rec EXCEPT !.pc = "done", !.report = Collect(rec)]
Advance(rec, n) ==
    IF rec.i >= n THEN [rec EXCEPT !.pc = "done", !.report = Collect(rec)]
    ELSE [rec EXCEPT !.i = @ + 1, !.pc = "deliver"]

\* Multicast: duplicate (`continue` when it fails), then try_send
MulticastSend(rec, key, addr, r) ==
    IF DuplicateFails(rec) THEN [rec EXCEPT !.skipped = Append(@, key)]
    ELSE Offer(rec, key, addr, r)

\* Outcome::Multicast, one turn of the loop: `self.objects.get(&key)`, and
\* on a hit the rest of the turn
MulticastGet(t) ==
    /\ thread[t].pc = "deliver"
    /\ thread[t].out.type = "Multicast"
    /\ LET list == thread[t].out.list
           key == list[thread[t].i]
           addr == objects[key]
       IN  IF addr # NoAddr
           THEN \E r \in SendResults :
                   thread' = [thread EXCEPT ![t] =
                       Advance(MulticastSend(@, key, addr, r), Len(list))]
           ELSE thread' = [thread EXCEPT ![t].pc = "entry", ![t].misses = @ + 1]
    /\ UNCHANGED <<objects, control, router, actors, bookVars>>
    /\ UNCHANGED <<dumpVars, srcVars, remoteVars>>

\* Outcome::Multicast, after a miss: entry(key).or_insert_with(|| spawn(key))
\* and the rest of the turn
MulticastEntry(t) ==
    /\ thread[t].pc = "entry"
    /\ thread[t].out.type = "Multicast"
    /\ LET list == thread[t].out.list
           key == list[thread[t].i]
       IN  IF ~EntryVacant(key)
           THEN /\ \E r \in SendResults :
                     thread' = [thread EXCEPT ![t] =
                         Advance(MulticastSend(@, key, objects[key], r), Len(list))]
                /\ UNCHANGED <<objects, actors, bookVars>>
           ELSE IF ~CanSpawn
           THEN /\ thread' = [thread EXCEPT ![t].pc = "panicked"]
                /\ UNCHANGED <<objects, actors, bookVars>>
           ELSE /\ Spawn(key, "first")
                /\ objects' = [objects EXCEPT ![key] = SpawnAddr]
                /\ \E r \in SendResults :
                     thread' = [thread EXCEPT ![t] =
                         Advance(MulticastSend(@, key, SpawnAddr, r), Len(list))]
                /\ UNCHANGED <<launch_id, entries, removeCalls, freed>>
    /\ UNCHANGED <<control, router>>
    /\ UNCHANGED <<dumpVars, srcVars, remoteVars>>

\* Outcome::Broadcast, one turn of `for object in self.objects.iter()`; a key
\* the map does not hold when the iterator passes it is not visited
BroadcastNext(t) ==
    /\ thread[t].pc = "deliver"
    /\ thread[t].out.type = "Broadcast"
    /\ LET key == KeyOrder[thread[t].i]
           addr == objects[key]
       IN  IF addr = NoAddr
           THEN thread' = [thread EXCEPT ![t] = Advance(@, Len(KeyOrder))]
           ELSE IF DuplicateFails(thread[t])
           THEN thread' = [thread EXCEPT ![t].skipped = Append(@, key),
                                         ![t].pc = "done", ![t].report = Done]
           ELSE \E r \in SendResults :
                   thread' = [thread EXCEPT ![t] =
                       Advance(Offer(@, key, addr, r), Len(KeyOrder))]
    /\ UNCHANGED <<objects, control, router, actors, bookVars>>
    /\ UNCHANGED <<dumpVars, srcVars, remoteVars>>

\* the actor's future completes: `Ok(Ok(())) => return`
TaskFinish(a) ==
    /\ actors[a].pc = "running"
    /\ WithinBudget
    /\ actors' = [actors EXCEPT ![a].pc = "finished"]
    /\ UNCHANGED <<objects, control, router, thread, bookVars>>
    /\ UNCHANGED <<dumpVars, srcVars, remoteVars>>

\* the actor's future ends with an error or a panic
TaskFail(a) ==
    /\ actors[a].pc = "running"
    /\ WithinBudget
    /\ actors' = [actors EXCEPT ![a].pc = "failed"]
    /\ UNCHANGED <<objects, control, router, thread, bookVars>>
    /\ UNCHANGED <<dumpVars, srcVars, remoteVars>>

\* the task sends ActorBlocked { key } to the supervisor, which handles it in
\* the task: handle, ActorBlocked arm
TaskActorBlocked(a) ==
    /\ actors[a].pc = "failed"
    /\ LET key == actors[a].key
           object == objects[key]
           marked == IF object = NoAddr THEN actors
                     ELSE [actors EXCEPT ![object].status = "Restarting"]
       IN  actors' = [marked EXCEPT ![a].pc = "sleeping", ![a].blocked = @ + 1]
    /\ UNCHANGED <<objects, control, router, thread, bookVars>>
    /\ UNCHANGED <<dumpVars, srcVars, remoteVars>>

\* `tokio::time::sleep(Duration::from_secs(5)).await` returns
TaskSleep(a) ==
    /\ actors[a].pc = "sleeping"
    /\ actors' = [actors EXCEPT ![a].pc = "awake"]
    /\ UNCHANGED <<objects, control, router, thread, bookVars>>
    /\ UNCHANGED <<dumpVars, srcVars, remoteVars>>

\* the task sends ActorRestarted { key }; handle, ActorRestarted arm: the
\* argument `self.spawn(key.clone())` is evaluated
TaskActorRestartedSpawn(a) ==
    /\ actors[a].pc = "awake"
    /\ IF ~CanSpawn
       THEN /\ actors' = [actors EXCEPT ![a].pc = "panicked"]
            /\ UNCHANGED bookVars
       ELSE /\ slab' = [slab EXCEPT ![NextFree(slab)] =
                         [gen |-> @.gen, st |-> "full", obj |-> [addr |-> SpawnAddr]]]
            /\ actors' = (SpawnAddr :> NewActor(actors[a].key, "restart")) @@
                           [actors EXCEPT ![a].pc = "insert",
                                          ![a].successor = SpawnAddr]
            /\ UNCHANGED <<launch_id, entries, removeCalls, freed>>
    /\ UNCHANGED <<objects, control, router, thread>>
    /\ UNCHANGED <<dumpVars, srcVars, remoteVars>>

\* DashMap::insert(key, value): the value stored under the key afterwards
InsertIfAbsent(old, new) == IF old = NoAddr THEN new ELSE old
Inserted(old, new) == new

\* handle, ActorRestarted arm: `self.objects.insert(key, ..)`, then Done
TaskActorRestartedInsert(a) ==
    /\ actors[a].pc = "insert"
    /\ objects' = [objects EXCEPT ![actors[a].key] = Inserted(@, actors[a].successor)]
    /\ actors' = [actors EXCEPT ![a].pc = "exited", ![a].restarted = @ + 1]
    /\ UNCHANGED <<control, router, thread, bookVars>>
    /\ UNCHANGED <<dumpVars, srcVars, remoteVars>>

SupNext ==
    \/ \E t \in Threads : HandleMessage(t)
    \/ \E t \in ConfigThreads, c \in Payloads : HandleValidateConfig(t, c)
    \/ \E t \in ConfigThreads, c \in Payloads : HandleUpdateConfig(t, c)
    \/ \E t \in Threads : HandleUpdateConfigRoute(t)
    \/ \E t \in Threads : RequesterDies(t)
    \/ \E t \in Threads : UnicastGet(t)
    \/ \E t \in Threads : UnicastEntry(t)
    \/ \E t \in Threads : MulticastGet(t)
    \/ \E t \in Threads : MulticastEntry(t)
    \/ \E t \in Threads : BroadcastNext(t)
    \/ \E a \in DOMAIN actors : TaskFinish(a)
    \/ \E a \in DOMAIN actors : TaskFail(a)
    \/ \E a \in DOMAIN actors : TaskActorBlocked(a)
    \/ \E a \in DOMAIN actors : TaskSleep(a)
    \/ \E a \in DOMAIN actors : TaskActorRestartedSpawn(a)
    \/ \E a \in DOMAIN actors : TaskActorRestartedInsert(a)

(***************************************************************************)
(* Source and Combined                                                     *)
(***************************************************************************)
MaxPolls == 3        \* polls of Combined in one behaviour
MaxItems == 2        \* envelopes a child source of kind "any" yields

\* Poll<Option<Envelope>>
NoItem == [src |-> "-", no |-> 0]
Pending == [poll |-> "Pending", item |-> NoItem]
ReadyNone == [poll |-> "Ready", item |-> NoItem]
ReadySome(src, no) == [poll |-> "Ready", item |-> [src |-> src, no |-> no]]
NotPolled == [poll |-> "-", item |-> NoItem]
IsSome(res) == res.poll = "Ready" /\ res.item # NoItem

\* the child sources of the model: the unit source; a source that yields one
\* envelope and is drained; a source that has an envelope at every poll; any
\* fused source of at most MaxItems envelopes
SourceKinds == {"unit", "once", "always", "any"}

NewSource(kind) == [kind |-> kind, closed |-> FALSE, sent |-> 0]

\* impl Source for (): poll_recv
unit_poll_recv_pending == Pending
unit_poll_recv == ReadyNone

\* what a poll of a child may return; a source that has returned Ready(None)
\* keeps returning it ("implementations must be fused")
ChildResultsUnfused(c, name) ==
    CASE c.kind = "unit" -> {unit_poll_recv}
      [] c.kind = "once" -> IF c.sent = 0 THEN {ReadySome(name, 1)} ELSE {ReadyNone}
      [] c.kind = "always" -> {ReadySome(name, c.sent + 1)}
      [] c.kind = "any" ->
            {Pending, ReadyNone} \cup
            (IF c.sent < MaxItems THEN {ReadySome(name, c.sent + 1)} ELSE {})
ChildResults(c, name) ==
    IF c.closed THEN {ReadyNone}
    ELSE CASE c.kind = "unit" -> {unit_poll_recv}
           [] c.kind = "once" ->
                 IF c.sent = 0 THEN {ReadySome(name, 1)} ELSE {ReadyNone}
           [] c.kind = "always" -> {ReadySome(name, c.sent + 1)}
           [] c.kind = "any" ->
                 {Pending, ReadyNone} \cup
                 (IF c.sent < MaxItems THEN {ReadySome(name, c.sent + 1)} ELSE {})

\* the child after a poll that returned res
ChildPolled(c, res) ==
    [c EXCEPT !.closed = @ \/ res = ReadyNone,
              !.sent = IF IsSome(res) THEN @ + 1 ELSE @]

\* Combined::poll_recv: the right child is polled unless left has an item
PollsRight(l) == ~IsSome(l)

\* Combined::poll_recv: the match on left's answer (r is right's answer, when
\* right was polled)
poll_recv_mirrors_right(l, r) == IF IsSome(l) THEN l ELSE r
poll_recv_left_only(l, r) ==
    IF IsSome(l) THEN l
    ELSE IF l = ReadyNone THEN r
    ELSE Pending
poll_recv(l, r) ==
    IF IsSome(l) THEN l
    ELSE IF l = ReadyNone THEN r
    ELSE IF IsSome(r) THEN r ELSE Pending

\* Combined::new(left, right)
SourceInit ==
    /\ children \in [left : {NewSource(k) : k \in SourceKinds},
                     right : {NewSource(k) : k \in SourceKinds}]
    /\ polled = <<>>

SourceIdle ==
    /\ children = [left |-> NewSource("unit"), right |-> NewSource("unit")]
    /\ polled = <<>>

\* one call of Combined::poll_recv
PollRecv ==
    /\ Len(polled) < MaxPolls
    /\ \E l \in ChildResults(children.left, "L") :
          IF PollsRight(l)
          THEN \E r \in ChildResults(children.right, "R") :
                  /\ children' = [left |-> ChildPolled(children.left, l),
                                  right |-> ChildPolled(children.right, r)]
                  /\ polled' = Append(polled,
                        [left |-> l, right |-> r, out |-> poll_recv(l, r)])
          ELSE /\ children' = [children EXCEPT !.left = ChildPolled(@, l)]
               /\ polled' = Append(polled,
                     [left |-> l, right |-> NotPolled, out |-> poll_recv(l, NotPolled)])
    /\ UNCHANGED <<bookVars, dumpVars, supVars, remoteVars>>

SourceNext == PollRecv

(***************************************************************************)
(* RemoteToHandleMap                                                       *)
(***************************************************************************)
\* the shifts of the key: `local_group << 32 | node_no << 8 | group_no`; the
\* first one is scaled down
LocalGroupShift == 16
NodeNoShift == 8

NetworkActorAddrs == {17, 18}       \* the Addrs of network actors
HandleAddrs == {33, 34}             \* the Addrs of proxies
LocalGroups == {1, 2}
RemoteGroups == {<<1, 1>>, <<1, 2>>}    \* (NodeNo, GroupNo)

\* the key of RemoteToHandleMapInner.map; the fields do not overlap, `|` adds
RemoteKey(local_group, remote_group) ==
    local_group * (2 ^ LocalGroupShift) + remote_group[1] * (2 ^ NodeNoShift)
        + remote_group[2]

RemoteKeys == {RemoteKey(lg, rg) : lg \in LocalGroups, rg \in RemoteGroups}

\* RemoteToHandleMapInner::default(); NoAddr stands for a key the map lacks
EmptyRemote ==
    [map |-> [k \in RemoteKeys |-> NoAddr],
     fallback |-> [n \in NetworkActorAddrs |-> NoAddr]]

NoRemoteCall ==
    [op |-> "-", network_actor_addr |-> NoAddr, key |-> 0, handle_addr |-> NoAddr,
     before |-> EmptyRemote]

Updaters == {"u1", "u2"}            \* threads that register and deregister
Readers == {"r1"}                   \* threads that resolve a remote Addr
LocalActors == NetworkActorAddrs \cup {19}   \* the actors a reader runs in

RemoteCall(op, network_actor_addr, key, handle_addr) ==
    [op |-> op, network_actor_addr |-> network_actor_addr, key |-> key,
     handle_addr |-> handle_addr]
IdleUpdater ==
    [pc |-> "idle", call |-> RemoteCall("-", NoAddr, 0, NoAddr),
     cur |-> EmptyRemote, seen |-> 0, retries |-> 0]
IdleReader ==
    [pc |-> "idle", inner |-> EmptyRemote, seen |-> 0, key |-> 0,
     local_actor |-> NoAddr, result |-> NoAddr]

RemoteInit ==
    /\ remote = EmptyRemote
    /\ remoteCall = NoRemoteCall
    /\ registered = {}
    /\ committed = <<>>
    /\ updater = [u \in Updaters |-> IdleUpdater]
    /\ reader = [r \in Readers |-> IdleReader]

\* RemoteToHandleMap::insert, the closure given to rcu
RemoteInserted(inner, network_actor_addr, key, handle_addr) ==
    [map |-> [inner.map EXCEPT ![key] = handle_addr],
     fallback |-> [inner.fallback EXCEPT ![network_actor_addr] = handle_addr]]

\* RemoteToHandleMap::remove: `inner.map.get(&key) == Some(&handle_addr)`
StoredIsAny(stored, handle_addr) == stored # NoAddr
StoredIs(stored, handle_addr) == stored = handle_addr

\* RemoteToHandleMap::remove, the closure given to rcu
RemoteRemoved(inner, network_actor_addr, key, handle_addr) ==
    IF StoredIs(inner.map[key], handle_addr)
    THEN [map |-> [inner.map EXCEPT ![key] = NoAddr],
          fallback |-> [inner.fallback EXCEPT ![network_actor_addr] = NoAddr]]
    ELSE inner

\* the registrations in place after a call that left the snapshot `inner`: an
\* insert replaces the registration of its key, and a registration is gone
\* when the map no longer holds its proxy under its key
Registered(regs, op, network_actor_addr, key, handle_addr, inner) ==
    IF op = "insert"
    THEN {t \in regs : t.key # key}
            \cup {[network_actor_addr |-> network_actor_addr, key |-> key,
                   handle_addr |-> handle_addr]}
    ELSE {t \in regs : inner.map[t.key] = t.handle_addr}

\* AddressBook::register_remote
RegisterRemote(network_actor_addr, local_group, remote_group, handle_addr) ==
    LET key == RemoteKey(local_group, remote_group)
    IN  /\ remote' = RemoteInserted(remote, network_actor_addr, key, handle_addr)
        /\ remoteCall' = [op |-> "insert", network_actor_addr |-> network_actor_addr,
                          key |-> key, handle_addr |-> handle_addr, before |-> remote]
        /\ registered' = Registered(registered, "insert", network_actor_addr, key,
                                    handle_addr, remote')
        /\ UNCHANGED <<bookVars, dumpVars, supVars, srcVars, rcuVars>>

\* AddressBook::deregister_remote
DeregisterRemote(network_actor_addr, local_group, remote_group, handle_addr) ==
    LET key == RemoteKey(local_group, remote_group)
    IN  /\ remote' = RemoteRemoved(remote, network_actor_addr, key, handle_addr)
        /\ remoteCall' = [op |-> "remove", network_actor_addr |-> network_actor_addr,
                          key |-> key, handle_addr |-> handle_addr, before |-> remote]
        /\ registered' = Registered(registered, "remove", network_actor_addr, key,
                                    handle_addr, remote')
        /\ UNCHANGED <<bookVars, dumpVars, supVars, srcVars, rcuVars>>

RemoteNext ==
    \/ \E n \in NetworkActorAddrs, lg \in LocalGroups, rg \in RemoteGroups,
          h \in HandleAddrs : RegisterRemote(n, lg, rg, h)
    \/ \E n \in NetworkActorAddrs, lg \in LocalGroups, rg \in RemoteGroups,
          h \in HandleAddrs : DeregisterRemote(n, lg, rg, h)

\* ---- the same calls, step by step: ArcSwap::rcu and the readers ----
\* the closure a call gives to rcu
Applied(inner, call) ==
    IF call.op = "insert"
    THEN RemoteInserted(inner, call.network_actor_addr, call.key, call.handle_addr)
    ELSE RemoteRemoved(inner, call.network_actor_addr, call.key, call.handle_addr)

\* the snapshot the ArcSwap holds is the n-th one stored: every swap stores a
\* new Arc, and rcu keeps the Arc it loaded alive, so that its pointer is not
\* reused; compare_and_swap compares pointers
CurrentPtr == Len(committed)
PtrEqAlways(current, seen) == TRUE
PtrEq(current, seen) == current = seen

\* insert / remove enter `self.0.rcu(..)`: rcu loads the current snapshot
RcuLoad(u, op, network_actor_addr, local_group, remote_group, handle_addr) ==
    /\ updater[u].pc = "idle"
    /\ updater' = [updater EXCEPT ![u] =
          [pc |-> "loaded",
           call |-> RemoteCall(op, network_actor_addr,
                               RemoteKey(local_group, remote_group), handle_addr),
           cur |-> remote, seen |-> CurrentPtr, retries |-> 0]]
    /\ UNCHANGED <<remote, remoteCall, registered, committed, reader>>
    /\ UNCHANGED <<bookVars, dumpVars, supVars, srcVars>>

\* rcu: the closure runs on the snapshot held, then compare_and_swap; when
\* another swap came first, rcu goes on with the snapshot it found instead
RcuSwap(u) ==
    /\ updater[u].pc = "loaded"
    /\ IF PtrEq(CurrentPtr, updater[u].seen)
       THEN /\ remote' = Applied(updater[u].cur, updater[u].call)
            /\ remoteCall' =
                  [op |-> updater[u].call.op,
                   network_actor_addr |-> updater[u].call.network_actor_addr,
                   key |-> updater[u].call.key,
                   handle_addr |-> updater[u].call.handle_addr,
                   before |-> remote]
            /\ registered' =
                  Registered(registered, updater[u].call.op,
                             updater[u].call.network_actor_addr, updater[u].call.key,
                             updater[u].call.handle_addr, remote')
            /\ committed' = Append(committed, [by |-> u, call |-> updater[u].call])
            /\ updater' = [updater EXCEPT ![u].pc = "done"]
       ELSE /\ updater' = [updater EXCEPT ![u].cur = remote,
                                          ![u].seen = CurrentPtr,
                                          ![u].retries = @ + 1]
            /\ UNCHANGED <<remote, remoteCall, registered, committed>>
    /\ UNCHANGED reader
    /\ UNCHANGED <<bookVars, dumpVars, supVars, srcVars>>

\* Addr::node_no_group_no
node_no_group_no(node_no, group_no) == node_no * (2 ^ NodeNoShift) + group_no

\* RemoteToHandleMap::get, `let key = ..`: the reader runs in an actor of this
\* node (node number 0) and of the group local_group
LookupKey(local_group, remote_group) ==
    node_no_group_no(0, local_group) * (2 ^ LocalGroupShift)
        + node_no_group_no(remote_group[1], remote_group[2])

\* RemoteToHandleMap::get, the lookup in the snapshot loaded
RemoteGet(inner, key, local_actor) ==
    IF key \in DOMAIN inner.map /\ inner.map[key] # NoAddr THEN inner.map[key]
    ELSE IF local_actor \in DOMAIN inner.fallback THEN inner.fallback[local_actor]
    ELSE NoAddr

\* RemoteToHandleMap::get: `let inner = self.0.load()`
ReaderLoad(r, local_actor, local_group, remote_group) ==
    /\ reader[r].pc = "idle"
    /\ reader' = [reader EXCEPT ![r] =
          [pc |-> "loaded", inner |-> remote, seen |-> CurrentPtr,
           key |-> LookupKey(local_group, remote_group),
           local_actor |-> local_actor, result |-> NoAddr]]
    /\ UNCHANGED <<remote, remoteCall, registered, committed, updater>>
    /\ UNCHANGED <<bookVars, dumpVars, supVars, srcVars>>

\* RemoteToHandleMap::get: `inner.map.get(&key).or_else(..).copied()`
ReaderGet(r) ==
    /\ reader[r].pc = "loaded"
    /\ reader' = [reader EXCEPT
          ![r].pc = "done",
          ![r].result = RemoteGet(reader[r].inner, reader[r].key, reader[r].local_actor)]
    /\ UNCHANGED <<remote, remoteCall, registered, committed, updater>>
    /\ UNCHANGED <<bookVars, dumpVars, supVars, srcVars>>

RcuNext ==
    \/ \E u \in Updaters, n \in NetworkActorAddrs, lg \in LocalGroups,
          rg \in RemoteGroups, h \in HandleAddrs : RcuLoad(u, "insert", n, lg, rg, h)
    \/ \E u \in Updaters, n \in NetworkActorAddrs, lg \in LocalGroups,
          rg \in RemoteGroups, h \in HandleAddrs : RcuLoad(u, "remove", n, lg, rg, h)
    \/ \E u \in Updaters : RcuSwap(u)
    \/ \E r \in Readers, a \in LocalActors, lg \in LocalGroups, rg \in RemoteGroups :
          ReaderLoad(r, a, lg, rg)
    \/ \E r \in Readers : ReaderGet(r)

(***************************************************************************)
(* Specifications                                                          *)
(***************************************************************************)
BookIdle ==
    /\ launch_id = 0
    /\ slab = [i \in Slots |-> EmptySlot]
    /\ entries = {}
    /\ removeCalls = {}
    /\ freed = {}

\* the book of a process whose launch id is not zero
SupBook ==
    /\ launch_id = 7
    /\ slab = [i \in Slots |-> EmptySlot]
    /\ entries = {}
    /\ removeCalls = {}
    /\ freed = {}

BookSpecInit == BookInit /\ DumpInit /\ SupInit /\ SourceIdle /\ RemoteInit
BookSpec == BookSpecInit /\ [][BookNext]_vars

DumpSpecInit == BookIdle /\ DumpInit /\ SupInit /\ SourceIdle /\ RemoteInit
DumpSpec == DumpSpecInit /\ [][DumpNext]_vars

\* the consumer calls next() again and again
DrainCalls ==
    \E d \in Drains : DrainPop(d) \/ DrainRefillStart(d) \/ DrainRefillStep(d)
DrainFairSpec == DumpSpecInit /\ [][DumpNext]_vars /\ WF_vars(DrainCalls)

\* a process with more threads than shards: w1 and SHARD_COUNT - 1 other
\* threads have dumped before (for a group outside the model, and those items
\* were drained), so that the next thread is given the shard of w1
DumpSharedInit ==
    /\ NEXT_SHARD_NO = SHARD_COUNT
    /\ SHARD_NO = [w \in Writers |-> IF w = "w1" THEN 0 ELSE Unassigned]
    /\ sequence_no_gen = [g \in DumpGroups |-> 1]
    /\ shards = [i \in ShardIds |-> <<>>]
    /\ writer = [w \in Writers |-> IdleWriter]
    /\ drain = [d \in Drains |-> IdleDrain]
    /\ offered = [i \in ShardIds |-> <<>>]
    /\ shed = {}
    /\ pushed = [w \in Writers |-> <<>>]
    /\ yielded = [d \in Drains |-> <<>>]
DumpSharedSpecInit == BookIdle /\ DumpSharedInit /\ SupInit /\ SourceIdle /\ RemoteInit
DumpSharedSpec == DumpSharedSpecInit /\ [][DumpNext]_vars

\* two Drain iterators of one Dumper, used from two threads; the threads that
\* dump belong to one group
TwoDrains == {"d1", "d2"}
DumpTwoInit ==
    /\ NEXT_SHARD_NO = 0
    /\ SHARD_NO = [w \in Writers |-> Unassigned]
    /\ sequence_no_gen = [g \in DumpGroups |-> 1]
    /\ shards = [i \in ShardIds |-> <<>>]
    /\ writer = [w \in Writers |-> IdleWriter]
    /\ drain = [d \in TwoDrains |-> IdleDrain]
    /\ offered = [i \in ShardIds |-> <<>>]
    /\ shed = {}
    /\ pushed = [w \in Writers |-> <<>>]
    /\ yielded = [d \in TwoDrains |-> <<>>]
DumpTwoNext ==
    \/ \E w \in Writers : DumpGenerate(w, "g1")
    \/ \E w \in Writers : DumpPush(w)
    \/ \E d \in TwoDrains : DrainPop(d)
    \/ \E d \in TwoDrains : DrainRefillStart(d)
    \/ \E d \in TwoDrains : DrainRefillStep(d)
DumpTwoSpecInit == BookIdle /\ DumpTwoInit /\ SupInit /\ SourceIdle /\ RemoteInit
DumpTwoSpec == DumpTwoSpecInit /\ [][DumpTwoNext]_vars

\* the supervisor of one group over the book of a process
SupSpecInit ==
    SupBook /\ DumpInit /\ (SupInit \/ SupConfigured) /\ SourceIdle /\ RemoteInit
SupSpec == SupSpecInit /\ [][SupNext]_vars

\* a Combined over two child sources
SourceSpecInit == BookIdle /\ DumpInit /\ SupInit /\ SourceInit /\ RemoteInit
SourceSpec == SourceSpecInit /\ [][SourceNext]_vars

\* the remote map of a book
RemoteSpecInit == BookIdle /\ DumpInit /\ SupInit /\ SourceIdle /\ RemoteInit
RemoteSpec == RemoteSpecInit /\ [][RemoteNext]_vars

\* registrations and deregistrations that run at the same time, and readers
RcuSpecInit == BookIdle /\ DumpInit /\ SupInit /\ SourceIdle /\ RemoteInit
RcuSpec == RcuSpecInit /\ [][RcuNext]_vars

(***************************************************************************)
(* AddressBook properties                                                  *)
(***************************************************************************)
AddrGroup(addr) == addr \div KeySpace
FullSlots == {i \in Slots : slab[i].st = "full"}

C5_RegisterLookupRemove ==
    /\ \A a \in Minted \ removeCalls : get(a) # None /\ get(a).addr = a
    /\ \A a \in removeCalls : get(a) = None /\ get_owned(a) = None

(***************************************************************************)
(* Dumper properties                                                       *)
(***************************************************************************)
Range(q) == {q[i] : i \in 1 .. Len(q)}
Min(a, b) == IF a < b THEN a ELSE b

InFlight == {writer[w].item : w \in {v \in Writers : writer[v].pc = "push"}}
InShards == UNION {Range(shards[i]) : i \in ShardIds}
InDrains == UNION {Range(drain[d].queue) : d \in Drains}
Yielded == UNION {Range(yielded[d]) : d \in Drains}
Pushed == UNION {Range(pushed[w]) : w \in Writers}
AllItems == InFlight \cup InShards \cup InDrains \cup Yielded \cup shed

OfGroup(S, g) == {x \in S : x.group = g}
SeqNos(S) == {x.sequence_no : x \in S}

\* every dump() call has returned and a Drain has emptied every queue
CompleteDrain ==
    /\ \A w \in Writers : writer[w].pc = "idle"
    /\ \A i \in ShardIds : shards[i] = <<>>
    /\ \A d \in Drains : drain[d].pc = "idle" /\ drain[d].queue = <<>>

\* the numbers of one group grow with the order of the dump() calls
GeneratedInOrder ==
    \A x, y \in AllItems :
        (x.group = y.group /\ x.message_name < y.message_name)
            => x.sequence_no < y.sequence_no

\* C7 (as stated): the numbers a complete drain has observed for a group are
\* pairwise distinct and are exactly 1..N, N the number of items of the group
\* that were pushed (not shed).
C7_DrainCoversOneToN ==
    /\ GeneratedInOrder
    /\ CompleteDrain =>
          \A g \in DumpGroups :
              /\ Cardinality(SeqNos(OfGroup(Yielded, g))) = Cardinality(OfGroup(Yielded, g))
              /\ SeqNos(OfGroup(Yielded, g)) = 1 .. Cardinality(OfGroup(Pushed, g))

\* C7 (amended): every dump() call of a group gets a number greater than all
\* earlier ones of the group; the numbers of a group are pairwise distinct and
\* are 1..G for its G dump() calls; a complete drain has observed exactly the
\* numbers of the calls that were not shed, which is 1..N only when no call of
\* the group was shed.
C7_SequenceNumbers ==
    /\ GeneratedInOrder
    /\ \A g \in DumpGroups :
          /\ SeqNos(OfGroup(AllItems, g)) = 1 .. (sequence_no_gen[g] - 1)
          /\ Cardinality(OfGroup(AllItems, g)) = sequence_no_gen[g] - 1
    /\ CompleteDrain =>
          \A g \in DumpGroups :
              /\ OfGroup(Yielded, g) = OfGroup(Pushed, g)
              /\ SeqNos(OfGroup(Yielded, g)) =
                    (1 .. (sequence_no_gen[g] - 1)) \ SeqNos(OfGroup(shed, g))
              /\ OfGroup(shed, g) = {} =>
                    SeqNos(OfGroup(Yielded, g)) = 1 .. Cardinality(OfGroup(Pushed, g))

\* C7 witness: a complete drain of a group with three dump() calls, one shed
\* before the last one was pushed.
C7_Witness ==
    /\ CompleteDrain
    /\ \E g \in DumpGroups :
          /\ sequence_no_gen[g] = 4
          /\ \E x \in OfGroup(shed, g) : x.sequence_no = 2
          /\ \E y \in OfGroup(Yielded, g) : y.sequence_no = 3

\* C8: a shard never holds more than SHARD_MAX_LEN items; of the items offered
\* to a shard since it was last drained the first SHARD_MAX_LEN are kept in
\* push order and the rest, and only the rest, are dropped; a dump() that has
\* built its item can always finish, whether the item is kept or dropped.
C8_BoundedDrop ==
    /\ \A i \in ShardIds :
          /\ Len(shards[i]) <= SHARD_MAX_LEN
          /\ shards[i] = SubSeq(offered[i], 1, Min(Len(offered[i]), SHARD_MAX_LEN))
          /\ \A n \in (SHARD_MAX_LEN + 1) .. Len(offered[i]) : offered[i][n] \in shed
    /\ Cardinality(shed) + Cardinality(Pushed) + Cardinality(InFlight) = DumpCalls
    /\ \A w \in Writers : writer[w].pc = "push" => ENABLED DumpPush(w)

\* C8 witness: SHARD_MAX_LEN + 1 items were offered to one shard without a
\* drain; the dump() of the last one has returned.
C8_Witness ==
    \E i \in ShardIds :
        /\ Len(offered[i]) = SHARD_MAX_LEN + 1
        /\ Len(shards[i]) = SHARD_MAX_LEN
        /\ offered[i][SHARD_MAX_LEN + 1] \in shed
        /\ \A w \in Writers : writer[w].pc = "idle"

IsPrefix(p, q) == Len(p) <= Len(q) /\ \A n \in 1 .. Len(p) : p[n] = q[n]
OfThread(q, w) == SelectSeq(q, LAMBDA x : x.thread = w)

\* C9: a Drain yields the items of one thread in the order the thread dumped
\* them, as they were dumped; a next() that began with an item in a queue
\* returns an item, and a next() that returns None began with every queue
\* empty; a next() that began with every queue empty and saw no push returns
\* None.
C9_RoundTripOrder ==
    \A d \in Drains :
        /\ \A w \in Writers : IsPrefix(OfThread(yielded[d], w), pushed[w])
        /\ drain[d].pc = "idle" =>
              /\ drain[d].last = "none" => ~drain[d].queued
              /\ drain[d].last = "some" => drain[d].queued \/ drain[d].pushed
              /\ drain[d].last = "none" => drain[d].queue = <<>>

\* C9 witness: a Drain has yielded two items of one thread and then None.
C9_Witness ==
    \E d \in Drains, w \in Writers :
        /\ Len(OfThread(yielded[d], w)) >= 2
        /\ OfThread(yielded[d], w) = pushed[w]
        /\ drain[d].pc = "idle"
        /\ drain[d].last = "none"
        /\ drain[d].shard_no # 0

(***************************************************************************)
(* Supervisor properties                                                   *)
(***************************************************************************)
\* spawns made for a key by entry(key).or_insert_with
FirstSpawns(k) ==
    Cardinality({a \in DOMAIN actors : actors[a].key = k /\ actors[a].via = "first"})
Restarts(k) ==
    Cardinality({a \in DOMAIN actors : actors[a].key = k /\ actors[a].via = "restart"})

\* the calls of handle() that have returned
Returned == {t \in Threads : thread[t].pc = "done"}

OfferedKeys(t) == {thread[t].offers[n].key : n \in 1 .. Len(thread[t].offers)}
OfferedAddrs(t, k) ==
    {thread[t].offers[n].addr :
        n \in {m \in 1 .. Len(thread[t].offers) : thread[t].offers[m].key = k}}
\* the keys an envelope is routed to as Unicast or Multicast
Targets(t) ==
    IF thread[t].out.type = "Unicast" THEN {thread[t].out.key}
    ELSE IF thread[t].out.type = "Multicast" THEN Range(thread[t].out.list)
    ELSE {}

\* C1 (as stated): spawn runs once for a key that several threads send to
\* for the first time, the map holds one object for it, and every envelope
\* routed to the key as Unicast or Multicast is offered to that actor (read
\* for the calls that return).
C1_EveryEnvelopeOffered ==
    /\ \A k \in Keys : FirstSpawns(k) <= 1
    /\ \A t \in Returned : \A k \in Targets(t) :
          /\ objects[k] # NoAddr
          /\ OfferedAddrs(t, k) # {}
          /\ Restarts(k) = 0 => OfferedAddrs(t, k) = {objects[k]}

\* the state of the map, the actors and the calls C1 (amended) describes
C1_SpawnedOnceAndOffered ==
    /\ \A k \in Keys :
          LET spawns == FirstSpawns(k)
          IN  /\ spawns <= 1
              /\ objects[k] # NoAddr =>
                    /\ objects[k] \in DOMAIN actors
                    /\ actors[objects[k]].key = k
              /\ objects[k] = NoAddr => spawns = 0
    /\ \A t \in Returned : \A k \in Targets(t) :
          LET addrs == OfferedAddrs(t, k)
          IN  /\ objects[k] # NoAddr
              /\ k \in OfferedKeys(t) \cup Range(thread[t].skipped)
              /\ \A a \in addrs : a \in DOMAIN actors /\ actors[a].key = k
              /\ Restarts(k) = 0 => addrs \subseteq {objects[k]}
              /\ thread[t].out.type = "Unicast" => addrs # {}
    /\ \A t \in Threads : \A n \in 1 .. Len(thread[t].skipped) :
          thread[t].request /\ ~thread[t].alive
    /\ \A t \in Threads : thread[t].pc = "panicked" =>
          /\ thread[t].out.type \in {"Unicast", "Multicast"}
          /\ Len(thread[t].offers) + Len(thread[t].skipped) = thread[t].i - 1

\* C1 (amended): or_insert_with spawns at most once for a key; a key the map
\* holds is held with an actor spawned for that key; every call that returns
\* has offered its envelope to the actor stored under each key it was routed
\* to, except the keys of a Multicast whose duplication failed, which are
\* skipped; a call that finds no config stored panics inside spawn and offers
\* nothing to the key it was going to spawn.  This holds at every step of
\* every behaviour.
C1_NoDoubleSpawn == []C1_SpawnedOnceAndOffered

\* C1 witness: two threads missed the same key in the map, one spawn was made
\* and both envelopes were offered to the actor it created.
C1_Witness ==
    \E k \in Keys, a \in DOMAIN actors :
        /\ FirstSpawns(k) = 1
        /\ \A t \in Threads :
              /\ thread[t].pc = "done"
              /\ thread[t].misses > 0
              /\ k \in Targets(t)
              /\ OfferedAddrs(t, k) = {a}

\* C2: a task that ends with an error or a panic sends one ActorBlocked, then,
\* after its sleep has returned, one ActorRestarted; handling ActorRestarted
\* spawns a new actor for the same key, under another Addr, and leaves it in
\* the map under that key.
C2_TaskOrder ==
    \A a \in DOMAIN actors :
        /\ actors[a].pc \in {"running", "finished", "failed"} =>
              actors[a].blocked = 0 /\ actors[a].restarted = 0
        /\ actors[a].pc \in {"sleeping", "awake", "insert"} =>
              actors[a].blocked = 1 /\ actors[a].restarted = 0
        /\ actors[a].pc = "exited" =>
              actors[a].blocked = 1 /\ actors[a].restarted = 1
        /\ actors[a].pc \in {"insert", "exited"} =>
              /\ actors[a].successor \in DOMAIN actors \ {a}
              /\ actors[actors[a].successor].key = actors[a].key
              /\ actors[actors[a].successor].via = "restart"
              /\ get(actors[a].successor) # None
        /\ actors[a].pc \notin {"insert", "exited"} => actors[a].successor = NoAddr

C2_Handled ==
    \A a \in DOMAIN actors :
        /\ actors'[a].blocked # actors[a].blocked =>
              actors[a].pc = "failed" /\ actors'[a].pc = "sleeping"
        /\ actors[a].pc = "sleeping" => actors'[a].pc \in {"sleeping", "awake"}
        /\ actors'[a].successor # actors[a].successor =>
              /\ actors[a].pc = "awake"
              /\ actors'[a].successor \notin DOMAIN actors
        /\ actors'[a].restarted # actors[a].restarted =>
              /\ actors[a].pc = "insert"
              /\ objects'[actors[a].key] = actors[a].successor
              /\ objects'[actors[a].key] # a

C2_RestartCycle == []C2_TaskOrder /\ [][C2_Handled]_vars

\* C2 witness: the ActorRestarted of a failed actor has been handled and the
\* map holds its successor.
C2_Witness ==
    \E a \in DOMAIN actors :
        /\ actors[a].pc = "exited"
        /\ actors[a].status = "Restarting"
        /\ objects[actors[a].key] = actors[a].successor
        /\ objects[actors[a].key] # a

\* no handler is between spawn and insert
NoRestartInProgress == \A a \in DOMAIN actors : actors[a].pc # "insert"

\* C3: an actor resolves in the AddressBook if and only if it is the object
\* stored under its key in the map; the actor ActorRestarted replaced no
\* longer resolves.
C3_MapBookConsistency ==
    NoRestartInProgress =>
        /\ \A a \in DOMAIN actors :
              get(a) # None <=> objects[actors[a].key] = a
        /\ \A a \in DOMAIN actors :
              actors[a].pc = "exited" => get(a) = None

\* the answers of try_send, read off the offers a call made
Answers(t, r) == SelectSeq(thread[t].offers, LAMBDA o : o.res = r)
FullAddrs(t) == [n \in 1 .. Len(Answers(t, "Full")) |-> Answers(t, "Full")[n].addr]
Multi(t) == thread[t].out.type \in {"Multicast", "Broadcast"}
\* targets a call reached: offered a copy, or skipped as duplication failed
Reached(t) == Len(thread[t].offers) + Len(thread[t].skipped)

UnicastMapping(t) ==
    thread[t].out.type = "Unicast" =>
        /\ Len(thread[t].offers) = 1
        /\ thread[t].offers[1].key = thread[t].out.key
        /\ thread[t].offers[1].res = "Ok" => thread[t].report = Done
        /\ thread[t].offers[1].res = "Full" =>
              thread[t].report = Wait(thread[t].offers[1].addr)
        /\ thread[t].offers[1].res = "Closed" => thread[t].report = Closed

DiscardMapping(t) ==
    thread[t].out.type \in {"Discard", "Default"} =>
        thread[t].report = Done /\ thread[t].offers = <<>>

\* C6 (as stated): the report of do_handle by the answers of the targets.
C6_ReportTable ==
    \A t \in Returned :
        /\ UnicastMapping(t)
        /\ DiscardMapping(t)
        /\ Multi(t) =>
              /\ (Reached(t) > 0 /\ Len(Answers(t, "Ok")) = Reached(t)) =>
                    thread[t].report = Done
              /\ (Len(Answers(t, "Ok")) > 0 /\ Len(Answers(t, "Full")) > 0) =>
                    thread[t].report = WaitAll(TRUE, FullAddrs(t))
              /\ (Len(Answers(t, "Ok")) = 0 /\ Len(Answers(t, "Full")) > 0) =>
                    thread[t].report = WaitAll(FALSE, FullAddrs(t))
              /\ (Reached(t) > 0 /\ Len(Answers(t, "Closed")) = Reached(t)) =>
                    thread[t].report = Closed

\* the report of every call that has returned, by its outcome and answers
C6_ReportOfReturned ==
    \A t \in Returned :
        /\ UnicastMapping(t)
        /\ DiscardMapping(t)
        /\ Multi(t) =>
              IF thread[t].out.type = "Broadcast" /\ thread[t].skipped # <<>>
              THEN thread[t].report = Done
              ELSE IF Len(Answers(t, "Full")) > 0
              THEN thread[t].report =
                      WaitAll(Len(Answers(t, "Ok")) > 0, FullAddrs(t))
              ELSE IF Len(Answers(t, "Ok")) > 0
              THEN thread[t].report = Done
              ELSE thread[t].report = Closed

\* C6 (amended): Unicast: Done / Wait(addr) / Closed by the answer of
\* try_send.  Multicast and Broadcast: WaitAll(someone, waiters) when a
\* target was full, someone telling whether a target accepted and waiters
\* holding the full targets, one entry each, in the order they were offered;
\* with no full target Done when a target accepted and Closed when none did
\* (also with no target at all); a target whose duplication failed is
\* skipped by Multicast, and a Broadcast whose duplication fails returns
\* Done at once whatever the earlier targets answered.  Discard and Default:
\* Done, nothing offered.  This holds at every step of every behaviour.
C6_RouteReport == []C6_ReportOfReturned

\* C6 witness: a Multicast with one target that accepted and one that was
\* full has returned.
C6_Witness ==
    \E t \in Returned :
        /\ thread[t].out.type = "Multicast"
        /\ Len(Answers(t, "Ok")) = 1
        /\ Len(Answers(t, "Full")) = 1
        /\ thread[t].report.type = "WaitAll"

\* calls of handle() with an UpdateConfig whose payload decodes
Updates == {t \in Threads : thread[t].msg = "UpdateConfig" /\ thread[t].config \in Configs}
IsRouted(t) == thread[t].pc \in {"deliver", "entry", "done", "panicked"}

StoredThenRouted(t) ==
    /\ thread[t].saved
    /\ thread[t].updated
    /\ IsRouted(t) =>
          /\ thread[t].out = or(thread[t].route, Broadcast)
          /\ thread[t].out.type # "Default"

\* C10 (as stated): the config is stored and the router updated before the
\* envelope is routed, a Default outcome becomes Broadcast, and every actor
\* the map holds at that moment is offered the update.
C10_EveryActorOffered ==
    \A t \in Updates :
        /\ StoredThenRouted(t)
        /\ (t \in Returned /\ thread[t].out.type = "Broadcast") =>
              thread[t].present \subseteq OfferedKeys(t)

\* the keys a Broadcast did not come to after its duplication failed
NotVisited(t) ==
    IF thread[t].skipped = <<>> THEN {}
    ELSE {KeyOrder[n] : n \in {m \in 1 .. Len(KeyOrder) :
                                  \E j \in 1 .. m : KeyOrder[j] = thread[t].skipped[1]}}

\* C10 (amended): the config is stored and the router updated before the
\* envelope is routed, a Default outcome becomes Broadcast, and the actor
\* stored under every key the map holds at that moment is offered the update,
\* unless the duplication of the envelope fails: the broadcast then stops at
\* that actor, offers nothing to it nor to the actors after it, and handle
\* returns Done.
C10_UpdateConfig ==
    \A t \in Updates :
        /\ StoredThenRouted(t)
        /\ (t \in Returned /\ thread[t].out.type = "Broadcast") =>
              /\ thread[t].present \subseteq OfferedKeys(t) \cup NotVisited(t)
              /\ OfferedKeys(t) \cap NotVisited(t) = {}
              /\ thread[t].skipped # <<>> =>
                    thread[t].report = Done /\ ~thread[t].alive
              /\ \A n \in 1 .. Len(thread[t].offers) :
                    LET o == thread[t].offers[n]
                    IN  o.addr \in DOMAIN actors /\ actors[o.addr].key = o.key

\* C10 witness: an UpdateConfig the router abstained on has been broadcast to
\* the two actors of the map.
C10_Witness ==
    \E t \in Updates :
        /\ t \in Returned
        /\ thread[t].route.type = "Default"
        /\ thread[t].out.type = "Broadcast"
        /\ Cardinality(thread[t].present) = 2
        /\ OfferedKeys(t) = thread[t].present

\* calls of handle() with a config message whose payload does not decode
RejectedCalls ==
    {t \in Threads : /\ thread[t].msg \in {"ValidateConfig", "UpdateConfig"}
                     /\ thread[t].config = Undecodable}

C11_Replied ==
    /\ \A t \in RejectedCalls :
          /\ thread[t].pc = "done"
          /\ thread[t].response = "ConfigRejected"
          /\ thread[t].report = Done
          /\ thread[t].route.type = "-"
          /\ thread[t].offers = <<>>
          /\ ~thread[t].saved
          /\ ~thread[t].updated
    /\ \A t \in Threads : thread[t].response = "ConfigRejected" => t \in RejectedCalls

C11_NoChange ==
    \A t \in Threads :
        (thread[t].pc = "idle" /\ thread'[t].config = Undecodable) =>
            /\ control' = control
            /\ router' = router
            /\ objects' = objects
            /\ actors' = actors
            /\ slab' = slab
            /\ \A u \in Threads \ {t} : thread'[u] = thread[u]

\* C11: a ValidateConfig or UpdateConfig whose payload does not decode is
\* answered with ConfigRejected on its request token, handle returns Done
\* without routing the envelope, and the step leaves the stored config, the
\* router, the keyed map, the book and every actor as they were.
C11_RejectedConfig == []C11_Replied /\ [][C11_NoChange]_vars

\* C11 witness: an UpdateConfig that does not decode was rejected while a
\* config is stored and the map holds an actor.
C11_Witness ==
    \E t \in RejectedCalls, k \in Keys :
        /\ thread[t].msg = "UpdateConfig"
        /\ thread[t].response = "ConfigRejected"
        /\ control = "c1"
        /\ router = "c1"
        /\ objects[k] # NoAddr

\* calls of handle() whose envelope is delivered as Broadcast
Broadcasts == {t \in Threads : thread[t].out.type = "Broadcast"}

\* C12 (as stated): a Broadcast offers a copy to every key the map held when
\* the envelope was routed and to no actor outside the map, and never goes
\* through the spawning path.
C12_EveryPresentKeyOffered ==
    \A t \in Broadcasts \cap Returned :
        /\ thread[t].misses = 0
        /\ thread[t].present \subseteq OfferedKeys(t)
        /\ \A k \in OfferedKeys(t) : objects[k] # NoAddr

C12_Offers ==
    \A t \in Broadcasts :
        /\ thread[t].misses = 0
        /\ thread[t].pc \in {"deliver", "done"}
        /\ Len(thread[t].offers) = Cardinality(OfferedKeys(t))
        /\ \A n \in 1 .. Len(thread[t].offers) :
              LET o == thread[t].offers[n]
              IN  o.addr \in DOMAIN actors /\ actors[o.addr].key = o.key
        /\ t \in Returned =>
              /\ thread[t].present \subseteq OfferedKeys(t) \cup NotVisited(t)
              /\ OfferedKeys(t) \cap NotVisited(t) = {}

C12_Frame ==
    \A t \in Broadcasts :
        thread'[t] # thread[t] =>
            /\ objects' = objects
            /\ actors' = actors
            /\ UNCHANGED bookVars
            /\ Len(thread'[t].offers) > Len(thread[t].offers) =>
                  LET o == thread'[t].offers[Len(thread'[t].offers)]
                  IN  objects[o.key] = o.addr

\* C12 (amended): a Broadcast never spawns: its steps leave the keys of the
\* map, the actors and the book unchanged and never take the spawning path;
\* each copy goes to the actor the map holds under a key when the loop visits
\* it, one copy per key; every key the map held when the envelope was routed
\* is offered a copy (a key a concurrent call spawned meanwhile may be offered
\* one too), unless the duplication fails: the loop then stops at that key and
\* offers nothing to it nor to the keys after it.
C12_BroadcastNeverSpawns == []C12_Offers /\ [][C12_Frame]_vars

\* C12 witness: a Broadcast of a plain message has returned; the one key of
\* the map was offered a copy and the other key is still not in the map.
C12_Witness ==
    \E t \in Broadcasts \cap Returned :
        /\ thread[t].msg = "Msg"
        /\ thread[t].present = {"k1"}
        /\ OfferedKeys(t) = {"k1"}
        /\ objects["k2"] = NoAddr

\* C13: an actor whose future completed without error has the status
\* Terminated, its Addr no longer resolves in the AddressBook, and no
\* ActorBlocked or ActorRestarted was sent for it.
C13_CleanCompletion ==
    \A a \in DOMAIN actors :
        actors[a].pc = "finished" =>
            /\ actors[a].status = "Terminated"
            /\ get(a) = None
            /\ actors[a].blocked = 0
            /\ actors[a].restarted = 0

\* C14: no call of handle() fails an expect: every call that was entered
\* returns a RouteReport, from a thread or from an actor's task.
C14_NeverPanics ==
    /\ \A t \in Threads : thread[t].pc # "panicked"
    /\ \A a \in DOMAIN actors : actors[a].pc # "panicked"

\* the configs stored by the UpdateConfig calls that released the write lock
StoredByUpdates == {thread[u].config : u \in Updates}

C15_Released ==
    /\ Updates # {} => control \in StoredByUpdates
    /\ \A u \in Updates :
          thread[u].pc = "route" =>
              /\ thread[u].route.type = "-"
              /\ thread[u].offers = <<>>
              /\ thread[u].report = NoReport
    /\ \A a \in DOMAIN actors :
          /\ actors[a].config \in Configs
          /\ Updates = {} => actors[a].config = "c1"

C15_SpawnSeesConfig ==
    \A a \in (DOMAIN actors') \ (DOMAIN actors) :
        /\ actors'[a].config = control
        /\ Updates # {} => actors'[a].config \in StoredByUpdates

\* C15: the control block holds the config of an UpdateConfig from the moment
\* its handler has released the write lock; every actor spawned after that is
\* built with the config stored at its spawn, never with the one the update
\* replaced; and the handler has left the lock before it routes the envelope,
\* so that other calls spawn while the update is routed and delivered.
C15_ConfigVisibility == []C15_Released /\ [][C15_SpawnSeesConfig]_vars

\* C15 witness: an UpdateConfig has stored c2 and is not routed yet; one
\* actor was spawned before it with c1 and another one after it with c2.
C15_Witness ==
    \E u \in Updates, a, b \in DOMAIN actors :
        /\ thread[u].pc = "route"
        /\ thread[u].config = "c2"
        /\ actors[a].config = "c1"
        /\ actors[b].config = "c2"

\* calls of handle() whose envelope is delivered as Multicast
Multicasts == {t \in Threads : thread[t].out.type = "Multicast"}

\* the position of a key in the order the Broadcast loop visits keys in
KeyIndex(k) == CHOOSE n \in 1 .. Len(KeyOrder) : KeyOrder[n] = k

\* what a call that could not duplicate its envelope has done so far
C16_SkipsOrStops ==
    /\ \A t \in Threads : thread[t].skipped # <<>> =>
          /\ thread[t].request /\ ~thread[t].alive
          /\ thread[t].out.type \in {"Multicast", "Broadcast"}
    /\ \A t \in Multicasts \cap Returned :
          /\ Reached(t) = Len(thread[t].out.list)
          /\ \A k \in Range(thread[t].out.list) :
                /\ objects[k] # NoAddr
                /\ k \in OfferedKeys(t) \cup Range(thread[t].skipped)
          /\ thread[t].report = Collect(thread[t])
    /\ \A t \in Broadcasts : thread[t].skipped # <<>> =>
          /\ Len(thread[t].skipped) = 1
          /\ thread[t].pc = "done"
          /\ thread[t].report = Done
          /\ objects[thread[t].skipped[1]] # NoAddr
          /\ \A k \in OfferedKeys(t) : KeyIndex(k) < KeyIndex(thread[t].skipped[1])

\* C16: when the duplication of the envelope fails, Multicast skips the
\* recipient and goes through the rest of its list (a listed key that is not
\* in the map is still spawned), and its report is the one of the answers it
\* collected; Broadcast stops at the recipient and returns Done, and no actor
\* at or after that recipient is offered a copy.  This holds at every step of
\* every behaviour.
C16_DuplicationFailure == []C16_SkipsOrStops

\* C16 witness: a Multicast could not be duplicated for its first key, went on
\* to its second key, which it spawned, and has returned.
C16_Witness ==
    \E t \in Multicasts \cap Returned :
        /\ thread[t].skipped = <<"k1", "k2">>
        /\ thread[t].misses = 2
        /\ thread[t].offers = <<>>
        /\ thread[t].report = Closed

\* the slot keys a slab of the model hands out
MintableKeys == {g * NIdx + i : g \in 0 .. MaxGen, i \in Slots}

\* the Addrs a book created with the launch id `launch` mints
MintedUnder(launch) ==
    {new_local(key, g, launch) : key \in MintableKeys, g \in Groups}

\* C17: an Addr minted by a book with another launch id does not resolve in
\* this book, whatever objects this book holds.
C17_LaunchIdSafety ==
    \A other \in LaunchIds \ {launch_id} :
        \A addr \in MintedUnder(other) :
            get(addr) = None /\ get_owned(addr) = None

(***************************************************************************)
(* Source properties                                                       *)
(***************************************************************************)
Polls == 1 .. Len(polled)

\* the decision table of Combined::poll_recv, for one poll
DecisionTable(p) ==
    /\ IsSome(p.left) => p.out = p.left /\ p.right = NotPolled
    /\ p.left = ReadyNone => p.right # NotPolled /\ p.out = p.right
    /\ p.left = Pending =>
          /\ p.right # NotPolled
          /\ IsSome(p.right) => p.out = p.right
          /\ ~IsSome(p.right) => p.out = Pending
    /\ p.out = Pending => p.right # NotPolled /\ ~IsSome(p.right)

\* C18: every poll of Combined follows the decision table: left's item when
\* left has one, right not being polled; right's answer when left is drained;
\* with left pending right is polled and its item returned when it has one,
\* Pending otherwise; so Pending is returned only after right was polled and
\* had no item.  With a left child that yields one envelope and drains and a
\* right child that always has one, the polls return left's envelope and then
\* right's envelopes, in order.
C18_CombinedDecisionTable ==
    /\ \A n \in Polls : DecisionTable(polled[n])
    /\ (children.left.kind = "once" /\ children.right.kind = "always") =>
          \A n \in Polls :
              polled[n].out = IF n = 1 THEN ReadySome("L", 1)
                              ELSE ReadySome("R", n - 1)

\* C18 witness: Combined over a one-envelope left child and an always ready
\* right child was polled three times and more.
C18_Witness ==
    /\ children.left.kind = "once"
    /\ children.right.kind = "always"
    /\ Len(polled) >= 3
    /\ polled[1].out = ReadySome("L", 1)
    /\ polled[3].out = ReadySome("R", 2)

\* C19: the unit source answers Ready(None) at every poll, and once a poll of
\* Combined has returned Ready(None), every later poll returns Ready(None).
C19_SourceFusion ==
    /\ \A n \in Polls :
          /\ children.left.kind = "unit" => polled[n].left = ReadyNone
          /\ (children.right.kind = "unit" /\ polled[n].right # NotPolled) =>
                polled[n].right = ReadyNone
    /\ \A m, n \in Polls :
          (m < n /\ polled[m].out = ReadyNone) => polled[n].out = ReadyNone

\* C19 witness: the right child drained while the left one was pending, the
\* left one drained later, and Combined returned Ready(None) twice.
C19_Witness ==
    /\ Len(polled) >= 3
    /\ polled[1].left = Pending
    /\ polled[1].right = ReadyNone
    /\ polled[1].out = Pending
    /\ polled[2].out = ReadyNone
    /\ polled[3].out = ReadyNone

(***************************************************************************)
(* Remote map properties                                                   *)
(***************************************************************************)
\* C20: deregister_remote removes the entry of (local_group, remote_group),
\* and the fallback entry of the network actor, only when the proxy stored
\* under that pair is the supplied one; when another proxy is stored or the
\* pair has no entry the map and the fallback index are left as they were.
\* Distinct pairs have distinct keys.
C20_GuardedDeregistration ==
    /\ Cardinality(RemoteKeys) = Cardinality(LocalGroups) * Cardinality(RemoteGroups)
    /\ remoteCall.op = "remove" =>
          LET before == remoteCall.before
              key == remoteCall.key
          IN  IF before.map[key] = remoteCall.handle_addr
              THEN /\ remote.map = [before.map EXCEPT ![key] = NoAddr]
                   /\ remote.fallback =
                         [before.fallback EXCEPT ![remoteCall.network_actor_addr] = NoAddr]
              ELSE remote = before

\* C20 witness: a pair was registered again with another proxy, and the late
\* deregistration of the first proxy left its entry and the fallback alone.
C20_Witness ==
    /\ remoteCall.op = "remove"
    /\ remoteCall.before.map[remoteCall.key] # NoAddr
    /\ remoteCall.before.map[remoteCall.key] # remoteCall.handle_addr
    /\ remoteCall.before.fallback[remoteCall.network_actor_addr] # NoAddr
    /\ remote = remoteCall.before

(***************************************************************************)
(* RemoteToHandleMap under concurrent calls                                *)
(***************************************************************************)
\* the snapshot a serial run of the calls leaves, in the order given
RECURSIVE Serial(_)
Serial(calls) ==
    IF calls = <<>> THEN EmptyRemote
    ELSE Applied(Serial(SubSeq(calls, 1, Len(calls) - 1)), calls[Len(calls)].call)

\* the swaps of an updater that succeeded
SwapsBy(u) == {n \in 1 .. Len(committed) : committed[n].by = u}

\* C21: whatever the interleaving of the calls of register_remote and
\* deregister_remote and of the readers, no update is lost: the snapshot the
\* map holds is the one a serial run of the calls leaves, in the order of
\* their swaps, and a call has returned exactly when it appears once in that
\* order; and a reader uses one snapshot for the key index and the fallback
\* index, the one a serial run of the first calls of that order leaves, so
\* that the answer of get is the answer of that snapshot.
C21_ReadCopyUpdate ==
    /\ remote = Serial(committed)
    /\ \A u \in Updaters :
          /\ Cardinality(SwapsBy(u)) = (IF updater[u].pc = "done" THEN 1 ELSE 0)
          /\ \A n \in SwapsBy(u) : committed[n].call = updater[u].call
    /\ \A r \in Readers : reader[r].pc # "idle" =>
          /\ reader[r].seen <= Len(committed)
          /\ reader[r].inner = Serial(SubSeq(committed, 1, reader[r].seen))
          /\ reader[r].pc = "done" =>
                reader[r].result =
                    RemoteGet(Serial(SubSeq(committed, 1, reader[r].seen)),
                              reader[r].key, reader[r].local_actor)

\* C21 witness: two registrations ran at the same time, the one that lost the
\* swap ran its closure again on the snapshot of the other and both are in
\* the map; a reader that loaded between the two swaps got the proxy of the
\* first registration through the fallback index.
C21_Witness ==
    \E u, v \in Updaters, r \in Readers :
        /\ updater[u].pc = "done" /\ updater[v].pc = "done"
        /\ updater[u].call.op = "insert" /\ updater[v].call.op = "insert"
        /\ updater[u].call.key # updater[v].call.key
        /\ updater[v].retries = 1
        /\ remote.map[updater[u].call.key] = updater[u].call.handle_addr
        /\ remote.map[updater[v].call.key] = updater[v].call.handle_addr
        /\ reader[r].pc = "done"
        /\ reader[r].seen = 1
        /\ reader[r].key # updater[u].call.key
        /\ reader[r].local_actor = updater[u].call.network_actor_addr
        /\ reader[r].result = updater[u].call.handle_addr

\* the tasks whose ActorBlocked has been handled and whose ActorRestarted has
\* not replaced the entry yet
Blocked == {a \in DOMAIN actors : actors[a].pc \in {"sleeping", "awake", "insert"}}

\* C22: once the ActorBlocked of a failed task has been handled, the object
\* stored under its key is that actor and has the status Restarting, until
\* ActorRestarted replaces the entry, whatever the interleaving of the failure
\* with the handler that spawned the actor.
C22_BlockedIsRestarting ==
    \A a \in Blocked :
        /\ objects[actors[a].key] = a
        /\ actors[a].status = "Restarting"

(***************************************************************************)
(* Drain: termination                                                      *)
(***************************************************************************)
\* the shards of one next() are locked in round-robin order, and the search
\* stops at the first one that holds an item
InRevolution(locked) ==
    /\ \A n \in 1 .. Len(locked) :
          locked[n].shard = (locked[1].shard + n - 1) % SHARD_COUNT
    /\ \A n \in 1 .. (Len(locked) - 1) : locked[n].empty

\* one full revolution found every shard empty
FullEmptyRevolution(d) ==
    /\ Len(drain[d].locked) = SHARD_COUNT
    /\ \A n \in 1 .. SHARD_COUNT : drain[d].locked[n].empty
    /\ drain[d].locked[1].shard = drain[d].shard_no

C23_Bounded ==
    \A d \in Drains :
        /\ drain[d].shard_no \in ShardIds
        /\ Len(drain[d].locked) <= SHARD_COUNT
        /\ InRevolution(drain[d].locked)
        /\ drain[d].pc = "refill" =>
              /\ Len(drain[d].locked) < SHARD_COUNT
              /\ \A n \in 1 .. Len(drain[d].locked) : drain[d].locked[n].empty
              /\ drain[d].locked # <<>> => drain[d].locked[1].shard = drain[d].shard_no
        /\ (drain[d].pc = "idle" /\ drain[d].last # "-") =>
              /\ drain[d].last = "none" <=> FullEmptyRevolution(d)
              /\ (drain[d].last = "some" /\ drain[d].locked # <<>>) =>
                    /\ ~drain[d].locked[Len(drain[d].locked)].empty
                    /\ drain[d].shard_no =
                          (drain[d].locked[Len(drain[d].locked)].shard + 1) % SHARD_COUNT

\* every item pushed has been yielded and the latest next() returned None
C23_DrainedNone ==
    \A d \in Drains :
        /\ drain[d].pc = "idle"
        /\ drain[d].last = "none"
        /\ drain[d].queue = <<>>
        /\ \A i \in ShardIds : shards[i] = <<>>
        /\ \A w \in Writers : Range(pushed[w]) \subseteq Range(yielded[d])

\* C23: every next() locks at most SHARD_COUNT shards, in round-robin order
\* from the cursor, and returns None exactly when one full revolution from the
\* cursor found every shard empty; the cursor is a shard index at all times;
\* and when next() is called again and again, then, once no dump() runs any
\* more, every queued item is yielded and next() returns None.
C23_DrainTermination == []C23_Bounded /\ []<>C23_DrainedNone

\* C23 witness: a next() found the shard at the cursor empty, took the items
\* of the next shard and yielded the first one; the cursor has wrapped around.
C23_Witness ==
    \E d \in Drains :
        /\ drain[d].pc = "idle"
        /\ drain[d].last = "some"
        /\ Len(drain[d].locked) = SHARD_COUNT
        /\ drain[d].locked[1].empty
        /\ drain[d].locked[1].shard # 0
        /\ drain[d].shard_no = drain[d].locked[1].shard

\* C24: in every shard queue the items of one group are in increasing order
\* of their sequence numbers, also when two writer threads have the same
\* shard and call dump() for the same group at the same time.
C24_ShardOrder ==
    \A i \in ShardIds : \A m, n \in 1 .. Len(shards[i]) :
        (m < n /\ shards[i][m].group = shards[i][n].group) =>
            shards[i][m].sequence_no < shards[i][n].sequence_no

\* the items held by the Drain iterators, and the items next() has returned
QueuedItems == UNION {Range(drain[d].queue) : d \in DOMAIN drain}
YieldedItems == UNION {Range(yielded[d]) : d \in DOMAIN drain}
\* how many items the queues of f hold
Held(f) == SumOver([x \in DOMAIN f |-> Len(f[x])], DOMAIN f)
DrainQueues == [d \in DOMAIN drain |-> drain[d].queue]

\* C25: with several threads in dump() and several Drain iterators in next(),
\* every item that was pushed into a shard is in exactly one place, once: in
\* a shard, in the queue of one Drain, or returned by one next() call.  None
\* is lost, none is returned twice or by two iterators, and next() returns
\* neither an item whose push has not happened yet nor an item that was shed.
C25_ExactlyOnce ==
    /\ Pushed = InShards \cup QueuedItems \cup YieldedItems
    /\ Cardinality(Pushed) = Held(pushed)
    /\ Held(pushed) = Held(shards) + Held(DrainQueues) + Held(yielded)
    /\ YieldedItems \cap (InFlight \cup shed) = {}

\* C25 witness: two iterators have drained everything between them, each has
\* returned items of the same thread, and an item was shed.
C25_Witness ==
    /\ DOMAIN drain = TwoDrains
    /\ \A w \in Writers : writer[w].pc = "idle"
    /\ \A i \in ShardIds : shards[i] = <<>>
    /\ \A d \in TwoDrains : drain[d].pc = "idle" /\ drain[d].queue = <<>>
    /\ \E w \in Writers : \A d \in TwoDrains : OfThread(yielded[d], w) # <<>>
    /\ Cardinality(YieldedItems) >= 3
    /\ shed # {}

\* the registrations in place under one network actor
RegisteredUnder(regs, network_actor_addr) ==
    {t \in regs : t.network_actor_addr = network_actor_addr}

\* deregister_remote takes back one of several registrations of n
TakesBackOneOfSeveral(n, local_group, remote_group, handle_addr) ==
    /\ DeregisterRemote(n, local_group, remote_group, handle_addr)
    /\ [network_actor_addr |-> n, key |-> RemoteKey(local_group, remote_group),
        handle_addr |-> handle_addr] \in registered
    /\ RegisteredUnder(registered', n) # {}

\* C26 (as stated): when two pairs are registered under one network actor,
\* deregister_remote of one pair removes the key entry of that pair and no
\* other, and a lookup by an actor whose key the map lacks, which relies on
\* the fallback entry of the network actor, still resolves to the proxy of a
\* registration that is still in place.
C26_DeregistrationIsLocal ==
    [][\A n \in NetworkActorAddrs, lg \in LocalGroups, rg \in RemoteGroups,
          h \in HandleAddrs :
          TakesBackOneOfSeveral(n, lg, rg, h) =>
              /\ remote'.map = [remote.map EXCEPT ![RemoteKey(lg, rg)] = NoAddr]
              /\ RemoteGet(remote', LookupKey(lg, rg), n)
                    \in {t.handle_addr : t \in RegisteredUnder(registered', n)}]_vars

====
